---- MODULE Spec2Model ----
(***************************************************************************)
(* Session / HTTP-client / route-guard / query-cache model of the          *)
(* leads-admin frontend:                                                    *)
(*   - the zustand auth store with its 'auth-storage' persistence          *)
(*     (src/lib/types.ts 241-359),                                          *)
(*   - the axios client with its request / response interceptors           *)
(*     (src/lib/api.ts 33-141),                                             *)
(*   - RouteGuard and the redirect effects of the pages                     *)
(*     (src/components/auth/route-guard.tsx, src/app/login/page.tsx),       *)
(*   - the react-query cache as the pages use it (queryKey, staleTime,     *)
(*     invalidateQueries).                                                  *)
(***************************************************************************)
EXTENDS Integers, Sequences, FiniteSets, TLC

VARIABLES
  auth,         \* the zustand store state (AuthState fields)
  authStorage,  \* localStorage['auth-storage'], written by the persist middleware
  ls,           \* localStorage access_token / refresh_token entries
  location,     \* the path the browser shows
  calls,        \* requests issued through the axios client, per call slot
  backendLeads, \* the backend's leads: lead id -> status, "none" when there is no such lead
  backendUsers, \* the backend's users: user id -> account state
  cache,        \* the react-query cache: query key -> entry
  fetching,     \* the query keys whose queryFn call is in flight
  guard,        \* the mounted RouteGuard: its props, last effect run, pending push
  mutation,     \* the state of the useMutation last used: idle / success / error
  leadView,     \* LeadDetailPage with its TelegramChat: route id, active session id
  pager,        \* LeadsPage: page, search text and filters
  listing,      \* the leads of the backend that LeadsPage lists, as counts
  view          \* the page DashboardLayout shows as its child, "none" when it shows none

vars == <<auth, authStorage, ls, location, calls,
          backendLeads, backendUsers, cache, fetching, guard,
          mutation, leadView, pager, listing, view>>

sessionVars == <<auth, authStorage, ls, location, calls>>
cacheVars == <<backendLeads, backendUsers, cache>>
pageVars == <<mutation, leadView, pager, listing, view>>

-----------------------------------------------------------------------------
(* Bounds *)

MaxSends == 3        \* sends of one originating request the backend still answers 401 / session-403

Calls == {1, 2}      \* call slots
OneAtATime == {1}    \* the slot used when requests are issued one after the other

-----------------------------------------------------------------------------
(* Values *)

Absent == "absent"                 \* null / undefined / removed entry
AccessTokens == {"a1", "a2"}
RefreshTokens == {"r1"}
RotatedRefreshTokens == {"r2"}   \* refresh tokens a refresh response may carry
NoError == "null"

NoUser == [present |-> FALSE, is_approved |-> FALSE, is_admin |-> FALSE, can_manage |-> FALSE]

\* User profiles as the backend returns them (capability flags come from the backend).
Profiles ==
  { [present |-> TRUE, is_approved |-> FALSE, is_admin |-> FALSE, can_manage |-> FALSE],
    [present |-> TRUE, is_approved |-> TRUE,  is_admin |-> FALSE, can_manage |-> FALSE],
    [present |-> TRUE, is_approved |-> TRUE,  is_admin |-> FALSE, can_manage |-> TRUE],
    [present |-> TRUE, is_approved |-> TRUE,  is_admin |-> TRUE,  can_manage |-> TRUE] }

Paths == {"/", "/login", "/dashboard", "/pending-approval", "/unauthorized"}

-----------------------------------------------------------------------------
(* The auth store: initial state, set(), persist middleware *)

InitialAuthState ==
  [user |-> NoUser, accessToken |-> Absent, refreshToken |-> Absent,
   isAuthenticated |-> FALSE, isLoading |-> FALSE, error |-> NoError]

\* zustand set(partial): shallow merge of the partial state into the store
SetState(s, partial) ==
  [k \in DOMAIN s |-> IF k \in DOMAIN partial THEN partial[k] ELSE s[k]]

\* persist option partialize: the part of the state written to 'auth-storage'
Partialize(s) ==
  [user |-> s.user, accessToken |-> s.accessToken,
   refreshToken |-> s.refreshToken, isAuthenticated |-> s.isAuthenticated]

NoStorage == [present |-> FALSE, state |-> Partialize(InitialAuthState)]

\* the persist middleware writes the partialized state on every set()
Persist(s) == [present |-> TRUE, state |-> Partialize(s)]

\* store creation on page load: the persisted part merged over the initial state
Rehydrate(st) ==
  IF st.present THEN SetState(InitialAuthState, st.state) ELSE InitialAuthState

NoTokens == [access_token |-> Absent, refresh_token |-> Absent]

\* localStorage.removeItem('access_token'); localStorage.removeItem('refresh_token')
RemoveTokens(l) == NoTokens


-----------------------------------------------------------------------------
(* Backend responses *)

NoResp == [status |-> "none", detail |-> ""]
OkResp == [status |-> "200", detail |-> ""]

\* detail strings of 403 responses: one per session-invalidity pattern, and
\* two that match none ("Invalid token" differs from "invalid" by case)
Details403 ==
  {"session expired", "invalid token", "user deactivated", "user not active",
   "pending approval", "Invalid token", "Not enough permissions"}

\* error outcomes of a request: HTTP error responses, and "network" for a
\* timeout / connection failure, where the error carries no response
ErrorResponses ==
  {[status |-> "401", detail |-> ""]}
    \cup {[status |-> "403", detail |-> d] : d \in Details403}
    \cup {[status |-> "400", detail |-> "bad request"],
          [status |-> "500", detail |-> ""],
          [status |-> "network", detail |-> ""]}

\* error outcomes of POST /auth/google the model draws from
LoginErrorResponses ==
  {[status |-> "401", detail |-> ""],
   [status |-> "403", detail |-> "user deactivated"],
   [status |-> "400", detail |-> "bad request"],
   [status |-> "network", detail |-> ""]}

ErrorResponsesFor(op) ==
  IF op = "login" THEN LoginErrorResponses ELSE ErrorResponses

\* the characters of the strings the model uses
Chars(s) ==
  CASE s = "" -> <<>>
  [] s = "session expired" -> <<"s", "e", "s", "s", "i", "o", "n", " ", "e", "x", "p", "i", "r", "e", "d">>
  [] s = "invalid token" -> <<"i", "n", "v", "a", "l", "i", "d", " ", "t", "o", "k", "e", "n">>
  [] s = "Invalid token" -> <<"I", "n", "v", "a", "l", "i", "d", " ", "t", "o", "k", "e", "n">>
  [] s = "user deactivated" -> <<"u", "s", "e", "r", " ", "d", "e", "a", "c", "t", "i", "v", "a", "t", "e", "d">>
  [] s = "user not active" -> <<"u", "s", "e", "r", " ", "n", "o", "t", " ", "a", "c", "t", "i", "v", "e">>
  [] s = "pending approval" -> <<"p", "e", "n", "d", "i", "n", "g", " ", "a", "p", "p", "r", "o", "v", "a", "l">>
  [] s = "Not enough permissions" -> <<"N", "o", "t", " ", "e", "n", "o", "u", "g", "h", " ", "p", "e", "r", "m", "i", "s", "s", "i", "o", "n", "s">>
  [] s = "bad request" -> <<"b", "a", "d", " ", "r", "e", "q", "u", "e", "s", "t">>
  [] s = "expired" -> <<"e", "x", "p", "i", "r", "e", "d">>
  [] s = "invalid" -> <<"i", "n", "v", "a", "l", "i", "d">>
  [] s = "deactivated" -> <<"d", "e", "a", "c", "t", "i", "v", "a", "t", "e", "d">>
  [] s = "not active" -> <<"n", "o", "t", " ", "a", "c", "t", "i", "v", "e">>

\* String.prototype.includes: pat occurs in msg as a contiguous substring
Includes(msg, pat) ==
  \E i \in 1..(Len(msg) - Len(pat) + 1) : SubSeq(msg, i, i + Len(pat) - 1) = pat

-----------------------------------------------------------------------------
(* The axios client: interceptors *)

\* request interceptor: attach the access_token of localStorage when there is
\* one; otherwise the request keeps the header it came with
RequestInterceptor(l, hdr) ==
  IF l.access_token # Absent THEN l.access_token ELSE hdr

IsSessionRelated403NoPending(detail) ==
  \/ Includes(Chars(detail), Chars("expired"))
  \/ Includes(Chars(detail), Chars("invalid"))
  \/ Includes(Chars(detail), Chars("deactivated"))
  \/ Includes(Chars(detail), Chars("not active"))

\* the check on the detail of a 403: a session-related message
IsSessionRelated403(detail) ==
  \/ Includes(Chars(detail), Chars("expired"))
  \/ Includes(Chars(detail), Chars("invalid"))
  \/ Includes(Chars(detail), Chars("deactivated"))
  \/ Includes(Chars(detail), Chars("not active"))
  \/ Includes(Chars(detail), Chars("pending approval"))

EntersRefreshProtocolServerError(r) ==
  \/ r.status = "401"
  \/ r.status = "403" /\ IsSessionRelated403(r.detail)
  \/ r.status = "500"

EntersRefreshProtocolAny403(r) ==
  r.status = "401" \/ r.status = "403"

\* the response interceptor's decision to try a token refresh
EntersRefreshProtocol(r) ==
  \/ r.status = "401"
  \/ r.status = "403" /\ IsSessionRelated403(r.detail)


-----------------------------------------------------------------------------
(* The auth store: actions' state updates *)

\* login, after googleLogin resolved with p = {user, token}
LoginFulfilled(s, p) ==
  SetState(s, [user |-> p.user, accessToken |-> p.access_token,
               refreshToken |-> p.refresh_token, isAuthenticated |-> TRUE,
               isLoading |-> FALSE, error |-> NoError])

\* login's localStorage writes: refresh_token only when the response has one
LoginTokens(l, p) ==
  [access_token |-> p.access_token,
   refresh_token |-> IF p.refresh_token # Absent THEN p.refresh_token ELSE l.refresh_token]

\* error.response?.data?.detail || 'Login failed'
LoginErrorMessage(r) ==
  IF r.status = "network" \/ r.detail = "" THEN "Login failed" ELSE r.detail

\* login's catch block
LoginRejected(s, r) ==
  SetState(s, [error |-> LoginErrorMessage(r), isLoading |-> FALSE, isAuthenticated |-> FALSE])

LogoutFinallyKeepsSession(s) == SetState(s, [error |-> NoError])

\* logout's finally block (the store part)
LogoutFinally(s) ==
  SetState(s, [user |-> NoUser, accessToken |-> Absent, refreshToken |-> Absent,
               isAuthenticated |-> FALSE, error |-> NoError])

RefreshUserRejectedClearsUser(s) == SetState(s, [user |-> NoUser, isLoading |-> FALSE])

RefreshUserRejectedStaysLoading(s) == s

RefreshUserFulfilled(s, u) == SetState(s, [user |-> u, isLoading |-> FALSE])
RefreshUserRejected(s) == SetState(s, [isLoading |-> FALSE])

\* setTokens: the store part
SetTokensState(s, a, r) ==
  SetState(s, [accessToken |-> a, refreshToken |-> r, isAuthenticated |-> TRUE])

\* setTokens: the localStorage part (refresh_token only when one is given)
SetTokensStorage(l, a, r) ==
  [access_token |-> a, refresh_token |-> IF r # Absent THEN r ELSE l.refresh_token]

\* clearAuth: the store part
ClearAuthState(s) ==
  SetState(s, [user |-> NoUser, accessToken |-> Absent, refreshToken |-> Absent,
               isAuthenticated |-> FALSE, error |-> NoError])

\* what the caller of a rejected request does to the store, by operation
Rejected(op, s, r) ==
  CASE op = "login" -> LoginRejected(s, r)
    [] op = "logout" -> LogoutFinally(s)
    [] op = "refreshUser" -> RefreshUserRejected(s)
    [] OTHER -> s

\* the store operations call set(), which persists; a plain query does not
WritesStore(op) == op \in {"login", "logout", "refreshUser"}

-----------------------------------------------------------------------------
(* RouteGuard *)

Reqs == [requireApproval : BOOLEAN, requireAdmin : BOOLEAN, requireManager : BOOLEAN]

\* DashboardLayout wraps its pages in <RouteGuard requireApproval>
DashboardReq == [requireApproval |-> TRUE, requireAdmin |-> FALSE, requireManager |-> FALSE]

RouteGuardRedirectIgnoresLoading(s, req) ==
  IF ~s.isAuthenticated \/ ~s.user.present THEN "/login"
  ELSE IF req.requireApproval /\ ~s.user.is_approved THEN "/pending-approval"
  ELSE IF req.requireAdmin /\ ~s.user.is_admin THEN "/unauthorized"
  ELSE IF req.requireManager /\ ~s.user.can_manage THEN "/unauthorized"
  ELSE "none"

RouteGuardRedirectAdminFirst(s, req) ==
  IF s.isLoading THEN "none"
  ELSE IF ~s.isAuthenticated \/ ~s.user.present THEN "/login"
  ELSE IF req.requireAdmin /\ ~s.user.is_admin THEN "/unauthorized"
  ELSE IF req.requireApproval /\ ~s.user.is_approved THEN "/pending-approval"
  ELSE IF req.requireManager /\ ~s.user.can_manage THEN "/unauthorized"
  ELSE "none"

\* the useEffect of RouteGuard: the path it pushes, "none" when it pushes nothing
RouteGuardRedirect(s, req) ==
  IF s.isLoading THEN "none"
  ELSE IF ~s.isAuthenticated \/ ~s.user.present THEN "/login"
  ELSE IF req.requireApproval /\ ~s.user.is_approved THEN "/pending-approval"
  ELSE IF req.requireAdmin /\ ~s.user.is_admin THEN "/unauthorized"
  ELSE IF req.requireManager /\ ~s.user.can_manage THEN "/unauthorized"
  ELSE "none"

RouteGuardRenderNoApproval(s, req) ==
  IF s.isLoading \/ ~s.user.present THEN "loading"
  ELSE IF ~s.isAuthenticated THEN "null"
  ELSE IF req.requireAdmin /\ ~s.user.is_admin THEN "null"
  ELSE IF req.requireManager /\ ~s.user.can_manage THEN "null"
  ELSE "children"

RouteGuardRenderIgnoresLoading(s, req) ==
  IF ~s.user.present THEN "loading"
  ELSE IF ~s.isAuthenticated THEN "null"
  ELSE IF req.requireApproval /\ ~s.user.is_approved THEN "null"
  ELSE IF req.requireAdmin /\ ~s.user.is_admin THEN "null"
  ELSE IF req.requireManager /\ ~s.user.can_manage THEN "null"
  ELSE "children"

\* what RouteGuard returns: the loading placeholder, null, or its children
RouteGuardRender(s, req) ==
  IF s.isLoading \/ ~s.user.present THEN "loading"
  ELSE IF ~s.isAuthenticated THEN "null"
  ELSE IF req.requireApproval /\ ~s.user.is_approved THEN "null"
  ELSE IF req.requireAdmin /\ ~s.user.is_admin THEN "null"
  ELSE IF req.requireManager /\ ~s.user.can_manage THEN "null"
  ELSE "children"

\* the values of the Session in the dependency list of the guard's useEffect
\* (the requirement props of a mounted guard and the router do not change)
GuardDeps(s) == [isAuthenticated |-> s.isAuthenticated, user |-> s.user, isLoading |-> s.isLoading]

\* the dependency values before the effect has run
NoDeps == [isAuthenticated |-> FALSE, user |-> NoUser, isLoading |-> TRUE]

\* no RouteGuard is mounted
NoGuard == [mounted |-> FALSE, ran |-> FALSE, deps |-> NoDeps, pushed |-> FALSE, pending |-> "none"]

\* the dashboard pages are children of DashboardLayout's guard
DashboardRendered ==
  location = "/dashboard" /\ RouteGuardRender(auth, DashboardReq) = "children"


-----------------------------------------------------------------------------
(* Requests through the axios client *)

\* a call slot: pc is idle / sent (request in flight) / refreshing (POST
\* /auth/refresh in flight) / done (the caller's promise has settled)
NoCall ==
  [pc |-> "idle", op |-> "none",
   hdr |-> Absent,      \* the Authorization bearer of the request last sent
   body |-> Absent,     \* the refresh_token in the body of the refresh request
   sends |-> 0,         \* times the request went to the backend
   refreshes |-> 0,     \* refresh requests issued for it
   redir |-> 0,         \* window.location.href = '/login' assignments made for it
   via |-> "none",      \* status of the error that last entered the refresh protocol
   resp |-> NoResp]     \* the error being handled, or the settled result

Free(c) == calls[c].pc \in {"idle", "done"}

\* client.request(config): the request interceptor runs, the request leaves
Send(l, op) ==
  [NoCall EXCEPT !.pc = "sent", !.op = op, !.hdr = RequestInterceptor(l, Absent), !.sends = 1]

Settled(cl, r) ==
  [cl EXCEPT !.pc = "done", !.resp = r, !.body = Absent, !.hdr = Absent]

\* a full page load at path p (window.location.href = p, a reload, a typed URL):
\* requests in flight are abandoned, the store is created anew and rehydrated
AbandonedCalls == [c \in Calls |-> NoCall]

\* DashboardPage / its sub-pages issue a request (useQuery -> leadsApi...)
StartQuery(c) ==
  /\ Free(c)
  /\ DashboardRendered
  /\ calls' = [calls EXCEPT ![c] = Send(ls, "query")]
  /\ UNCHANGED <<auth, authStorage, ls, location>>

\* LoginPage.handleGoogleSuccess -> login(googleToken): the GoogleLogin button
\* is rendered on /login while not authenticated
StartLogin(c) ==
  /\ Free(c)
  /\ location = "/login"
  /\ ~auth.isAuthenticated
  /\ auth' = SetState(auth, [isLoading |-> TRUE, error |-> NoError])
  /\ authStorage' = Persist(auth')
  /\ calls' = [calls EXCEPT ![c] = Send(ls, "login")]
  /\ UNCHANGED <<ls, location>>

\* handleLogout of DashboardLayout (inside its guard) and of PendingApprovalPage
StartLogout(c) ==
  /\ Free(c)
  /\ DashboardRendered \/ location = "/pending-approval"
  /\ calls' = [calls EXCEPT ![c] = Send(ls, "logout")]
  /\ UNCHANGED <<auth, authStorage, ls, location>>

\* refreshUser with an access token in the store
StartRefreshUser(c) ==
  /\ Free(c)
  /\ auth.accessToken # Absent
  /\ auth' = SetState(auth, [isLoading |-> TRUE])
  /\ authStorage' = Persist(auth')
  /\ calls' = [calls EXCEPT ![c] = Send(ls, "refreshUser")]
  /\ UNCHANGED <<ls, location>>

\* a 2xx response to a query
QuerySucceeds(c) ==
  /\ calls[c].pc = "sent" /\ calls[c].op = "query"
  /\ calls' = [calls EXCEPT ![c] = Settled(@, OkResp)]
  /\ UNCHANGED <<auth, authStorage, ls, location>>

\* a 2xx response to POST /auth/google: login's try block
LoginSucceeds(c, p) ==
  /\ calls[c].pc = "sent" /\ calls[c].op = "login"
  /\ ls' = LoginTokens(ls, p)
  /\ auth' = LoginFulfilled(auth, p)
  /\ authStorage' = Persist(auth')
  /\ calls' = [calls EXCEPT ![c] = Settled(@, OkResp)]
  /\ UNCHANGED location

\* a 2xx response to POST /auth/logout: logout's finally block, then
\* handleLogout's router.push('/login')
LogoutSucceeds(c) ==
  /\ calls[c].pc = "sent" /\ calls[c].op = "logout"
  /\ ls' = RemoveTokens(ls)
  /\ auth' = LogoutFinally(auth)
  /\ authStorage' = Persist(auth')
  /\ location' = "/login"
  /\ calls' = [calls EXCEPT ![c] = Settled(@, OkResp)]

\* a 2xx response to GET /auth/me
RefreshUserSucceeds(c, u) ==
  /\ calls[c].pc = "sent" /\ calls[c].op = "refreshUser"
  /\ auth' = RefreshUserFulfilled(auth, u)
  /\ authStorage' = Persist(auth')
  /\ calls' = [calls EXCEPT ![c] = Settled(@, OkResp)]
  /\ UNCHANGED <<ls, location>>

\* Promise.reject(error) reaching the caller, no redirect
Reject(c, r) ==
  LET op == calls[c].op IN
  /\ auth' = Rejected(op, auth, r)
  /\ authStorage' = IF WritesStore(op) THEN Persist(auth') ELSE authStorage
  /\ ls' = IF op = "logout" THEN RemoveTokens(ls) ELSE ls
  /\ location' = IF op = "logout" THEN "/login" ELSE location
  /\ calls' = [calls EXCEPT ![c] = Settled(@, r)]

\* the interceptor's give-up branch: remove both tokens, window.location.href =
\* '/login', reject with the error; the caller's handlers run, then the page
\* loads at /login
ClearAndRedirect(c, r) ==
  LET op == calls[c].op
      s1 == Rejected(op, auth, r)
      st1 == IF WritesStore(op) THEN Persist(s1) ELSE authStorage
  IN
  /\ ls' = RemoveTokens(ls)
  /\ authStorage' = st1
  /\ auth' = Rehydrate(st1)
  /\ location' = "/login"
  /\ calls' = [AbandonedCalls EXCEPT ![c] =
        [Settled(calls[c], r) EXCEPT !.redir = @ + 1, !.via = r.status]]

\* the response interceptor's error handler, on an error outcome r
RequestFails(c, r) ==
  /\ calls[c].pc = "sent"
  /\ r \in ErrorResponsesFor(calls[c].op)
  /\ EntersRefreshProtocol(r) => calls[c].sends < MaxSends
  /\ IF EntersRefreshProtocol(r)
     THEN IF ls.refresh_token # Absent
          THEN /\ calls' = [calls EXCEPT ![c] =
                     [@ EXCEPT !.pc = "refreshing", !.body = ls.refresh_token,
                               !.resp = r, !.via = r.status, !.refreshes = @ + 1]]
               /\ UNCHANGED <<auth, authStorage, ls, location>>
          ELSE ClearAndRedirect(c, r)
     ELSE Reject(c, r)

RefreshSucceedsRotates(c, a, nr) ==
  /\ calls[c].pc = "refreshing"
  /\ ls' = [access_token |-> a, refresh_token |-> IF nr # Absent THEN nr ELSE ls.refresh_token]
  /\ calls' = [calls EXCEPT ![c] =
        [@ EXCEPT !.pc = "sent", !.hdr = RequestInterceptor(ls', a),
                  !.body = Absent, !.resp = NoResp, !.sends = @ + 1]]
  /\ UNCHANGED <<auth, authStorage, location>>

RefreshSucceedsKeepsOldToken(c, a, nr) ==
  /\ calls[c].pc = "refreshing"
  /\ ls' = ls
  /\ calls' = [calls EXCEPT ![c] =
        [@ EXCEPT !.pc = "sent", !.hdr = RequestInterceptor(ls', a),
                  !.body = Absent, !.resp = NoResp, !.sends = @ + 1]]
  /\ UNCHANGED <<auth, authStorage, location>>

\* POST /auth/refresh answered with {access_token: a, refresh_token: nr}: store
\* a, set the header of the original request, and re-issue it through the client
RefreshSucceeds(c, a, nr) ==
  /\ calls[c].pc = "refreshing"
  /\ ls' = [ls EXCEPT !.access_token = a]
  /\ calls' = [calls EXCEPT ![c] =
        [@ EXCEPT !.pc = "sent", !.hdr = RequestInterceptor(ls', a),
                  !.body = Absent, !.resp = NoResp, !.sends = @ + 1]]
  /\ UNCHANGED <<auth, authStorage, location>>

\* POST /auth/refresh failed
RefreshFails(c) ==
  /\ calls[c].pc = "refreshing"
  /\ ClearAndRedirect(c, calls[c].resp)

-----------------------------------------------------------------------------
(* Synchronous store actions *)

SetUser(u) ==
  /\ auth' = SetState(auth, [user |-> u])
  /\ authStorage' = Persist(auth')
  /\ UNCHANGED <<ls, location, calls>>

SetTokens(a, r) ==
  /\ ls' = SetTokensStorage(ls, a, r)
  /\ auth' = SetTokensState(auth, a, r)
  /\ authStorage' = Persist(auth')
  /\ UNCHANGED <<location, calls>>

ClearAuth ==
  /\ ls' = RemoveTokens(ls)
  /\ auth' = ClearAuthState(auth)
  /\ authStorage' = Persist(auth')
  /\ UNCHANGED <<location, calls>>

-----------------------------------------------------------------------------
(* Pages *)

\* the user loads a page (typed URL, reload)
Visit(p) ==
  /\ auth' = Rehydrate(authStorage)
  /\ location' = p
  /\ calls' = AbandonedCalls
  /\ UNCHANGED <<authStorage, ls>>

\* LoginPage: redirect if already authenticated
LoginPageEffect ==
  /\ location = "/login"
  /\ auth.isAuthenticated /\ auth.user.present
  /\ location' = "/dashboard"
  /\ UNCHANGED <<auth, authStorage, ls, calls>>

\* the effect of DashboardLayout's RouteGuard
RouteGuardEffect ==
  /\ location = "/dashboard"
  /\ RouteGuardRedirect(auth, DashboardReq) # "none"
  /\ location' = RouteGuardRedirect(auth, DashboardReq)
  /\ UNCHANGED <<auth, authStorage, ls, calls>>

\* Home: redirect to the dashboard or to login
HomeEffect ==
  /\ location = "/"
  /\ ~auth.isLoading
  /\ location' = IF auth.user.present THEN "/dashboard" ELSE "/login"
  /\ UNCHANGED <<auth, authStorage, ls, calls>>

-----------------------------------------------------------------------------
(* The local state of the pages *)

\* useMutation before mutate() was called
NoMutation == [name |-> "none", status |-> "idle", error |-> NoResp, message |-> ""]

\* LeadDetailPage is not open
\* no lead detail page is open; a number | null is <<n>> or <<>>
NoDetail == [open |-> FALSE, id |-> <<>>, chat |-> FALSE, activeSessionId |-> <<>>]

\* LeadsPage as it mounts: useState(1), useState(''), useState('ALL')
NoPager == [page |-> 1, search |-> "", statusFilter |-> "ALL"]

NoListing == [matching |-> 0, other |-> 0]

PageInit ==
  /\ mutation = NoMutation
  /\ leadView = NoDetail
  /\ pager = NoPager
  /\ listing = NoListing
  /\ view = "none"

-----------------------------------------------------------------------------
(* The mounted RouteGuard: its effect runs after the first render and after  *)
(* every render in which a dependency changed; router.push starts a          *)
(* client-side navigation that completes later                               *)

\* DashboardLayout renders its RouteGuard
GuardMounts ==
  /\ location = "/dashboard"
  /\ ~guard.mounted
  /\ guard' = [NoGuard EXCEPT !.mounted = TRUE]
  /\ UNCHANGED sessionVars

\* the effect of the mounted guard runs: on mount, or on a change of a dependency
GuardEffectRuns ==
  LET target == RouteGuardRedirect(auth, DashboardReq) IN
  /\ guard.mounted
  /\ ~guard.ran \/ GuardDeps(auth) # guard.deps
  /\ guard' = [guard EXCEPT !.ran = TRUE, !.deps = GuardDeps(auth),
                            !.pushed = (target # "none"),
                            !.pending = IF target # "none" THEN target ELSE @]
  /\ UNCHANGED sessionVars

\* the navigation started by router.push completes: the new page replaces the
\* guarded one
NavigationCompletes ==
  /\ guard.mounted
  /\ guard.pending # "none"
  /\ location' = guard.pending
  /\ guard' = NoGuard
  /\ UNCHANGED <<auth, authStorage, ls, calls>>

\* a page load unmounts what was mounted
GuardVisit(p) == Visit(p) /\ guard' = NoGuard

GuardNext ==
  \/ GuardMounts /\ UNCHANGED <<cacheVars, fetching, pageVars>>
  \/ GuardEffectRuns /\ UNCHANGED <<cacheVars, fetching, pageVars>>
  \/ NavigationCompletes /\ UNCHANGED <<cacheVars, fetching, pageVars>>
  \/ \E p \in Paths : GuardVisit(p) /\ UNCHANGED <<cacheVars, fetching, pageVars>>
  \/ \E u \in Profiles : SetUser(u) /\ UNCHANGED <<cacheVars, fetching, guard, pageVars>>
  \/ \E a \in AccessTokens, r \in RefreshTokens \cup {Absent} :
        SetTokens(a, r) /\ UNCHANGED <<cacheVars, fetching, guard, pageVars>>
  \/ ClearAuth /\ UNCHANGED <<cacheVars, fetching, guard, pageVars>>

-----------------------------------------------------------------------------
(* The Resource Query Layer: the react-query cache as the pages use it *)

LeadIds == {7}
UserIds == {1}
LeadStatuses == {"new", "won"}
UserStates == {"pending", "active", "inactive", "rejected"}

\* the query keys of the pages (first page of each list)
LeadsKey == <<"leads", 1>>              \* LeadsPage: ['leads', page, ...filters]
LeadKey(id) == <<"lead", id>>           \* LeadDetailPage: ['lead', leadId]
LeadsStatsKey == <<"leads-stats">>      \* DashboardPage: ['leads-stats']
UsersKey == <<"users", 1>>              \* UsersPage: ['users', page]
PendingUsersKey == <<"pending-users", 1>>  \* ApprovalsPage: ['pending-users', page]
UsersStatsKey == <<"users-stats">>      \* DashboardPage: ['users-stats']

LeadQueryKeys == {LeadsKey, LeadsStatsKey} \cup {LeadKey(id) : id \in LeadIds}
UserQueryKeys == {UsersKey, PendingUsersKey, UsersStatsKey}
QueryKeys == LeadQueryKeys \cup UserQueryKeys

\* the rows a table holds, as (id, value) pairs
Rows(table, absent) == {<<id, table[id]>> : id \in {i \in DOMAIN table : table[i] # absent}}

\* what the queryFn of a key returns from the backend as it is now:
\* leadsApi.listLeads / leadsApi.getLead / usersApi.listUsers
Fetch(key, leads, users) ==
  IF key \in {LeadsKey, LeadsStatsKey} THEN Rows(leads, "none")
  ELSE IF key \in {LeadKey(id) : id \in LeadIds}
       THEN {row \in Rows(leads, "none") : row[1] = key[2]}
  ELSE Rows(users, "none")

\* getLead of a lead the backend does not hold answers 404: the query fails
FetchFails(key, leads) ==
  key \in {LeadKey(id) : id \in LeadIds} /\ leads[key[2]] = "none"

NoEntry == [status |-> "none", data |-> {}, stale |-> TRUE]

\* partial matching of invalidateQueries({ queryKey }): the filter key is a
\* prefix of the query's key
MatchesQueryKey(filter, key) ==
  /\ Len(filter) <= Len(key)
  /\ \A i \in 1..Len(filter) : key[i] = filter[i]

\* queryClient.invalidateQueries({ queryKey: filter }): every matching entry is
\* marked invalidated, so that its next read refetches
InvalidateQueries(ch, filter) ==
  [key \in DOMAIN ch |->
     IF ch[key].status # "none" /\ MatchesQueryKey(filter, key)
     THEN [ch[key] EXCEPT !.stale = TRUE]
     ELSE ch[key]]

\* a useQuery of key is mounted (or refetches after an invalidation): data that
\* is cached and fresh is served as it is; otherwise the queryFn runs and its
\* result is cached
ReadQuery(key) ==
  /\ cache[key].status = "none" \/ cache[key].stale
  /\ ~FetchFails(key, backendLeads)
  /\ cache' = [cache EXCEPT ![key] =
        [status |-> "success", data |-> Fetch(key, backendLeads, backendUsers), stale |-> FALSE]]
  /\ UNCHANGED <<backendLeads, backendUsers>>

\* staleTime (60 s) passes for a cached entry
BecomeStale(key) ==
  /\ cache[key].status = "success" /\ ~cache[key].stale
  /\ cache' = [cache EXCEPT ![key].stale = TRUE]
  /\ UNCHANGED <<backendLeads, backendUsers>>

\* LeadsPage createMutation / importMutation succeed
CreateLead(id) ==
  /\ backendLeads[id] = "none"
  /\ backendLeads' = [backendLeads EXCEPT ![id] = "new"]
  /\ cache' = InvalidateQueries(cache, <<"leads">>)
  /\ UNCHANGED backendUsers

\* LeadsPage updateMutation succeeds
UpdateLead(id, st) ==
  /\ backendLeads[id] \notin {"none", st}
  /\ backendLeads' = [backendLeads EXCEPT ![id] = st]
  /\ cache' = InvalidateQueries(cache, <<"leads">>)
  /\ UNCHANGED backendUsers

\* LeadDetailPage updateMutation succeeds
UpdateLeadDetail(id, st) ==
  /\ backendLeads[id] \notin {"none", st}
  /\ backendLeads' = [backendLeads EXCEPT ![id] = st]
  /\ cache' = InvalidateQueries(InvalidateQueries(cache, LeadKey(id)), <<"leads">>)
  /\ UNCHANGED backendUsers

\* LeadsPage deleteMutation succeeds
DeleteLead(id) ==
  /\ backendLeads[id] # "none"
  /\ backendLeads' = [backendLeads EXCEPT ![id] = "none"]
  /\ cache' = InvalidateQueries(cache, <<"leads">>)
  /\ UNCHANGED backendUsers

\* a mutation of ApprovalsPage (approve, reject) succeeds, the user going
\* from state `from` to state `to`
ApprovalsPageMutation(id, from, to) ==
  /\ backendUsers[id] = from
  /\ backendUsers' = [backendUsers EXCEPT ![id] = to]
  /\ cache' = InvalidateQueries(cache, <<"pending-users">>)
  /\ UNCHANGED backendLeads

\* a mutation of UsersPage (approve, reject, deactivate, reactivate) succeeds
UsersPageMutation(id, from, to) ==
  /\ backendUsers[id] = from
  /\ backendUsers' = [backendUsers EXCEPT ![id] = to]
  /\ cache' = InvalidateQueries(cache, <<"users">>)
  /\ UNCHANGED backendLeads

\* the state changes of the user mutations
ApprovalTransitions == {<<"pending", "active">>, <<"pending", "rejected">>}
UserTransitions ==
  ApprovalTransitions \cup {<<"active", "inactive">>, <<"inactive", "active">>}

CacheInit ==
  /\ backendLeads \in [LeadIds -> LeadStatuses \cup {"none"}]
  /\ backendUsers \in [UserIds -> UserStates]
  /\ cache = [key \in QueryKeys |-> NoEntry]

CacheNext ==
  \/ \E key \in QueryKeys : ReadQuery(key) /\ UNCHANGED <<sessionVars, fetching, guard, pageVars>>
  \/ \E key \in QueryKeys : BecomeStale(key) /\ UNCHANGED <<sessionVars, fetching, guard, pageVars>>
  \/ \E id \in LeadIds : CreateLead(id) /\ UNCHANGED <<sessionVars, fetching, guard, pageVars>>
  \/ \E id \in LeadIds, st \in LeadStatuses : UpdateLead(id, st) /\ UNCHANGED <<sessionVars, fetching, guard, pageVars>>
  \/ \E id \in LeadIds, st \in LeadStatuses : UpdateLeadDetail(id, st) /\ UNCHANGED <<sessionVars, fetching, guard, pageVars>>
  \/ \E id \in LeadIds : DeleteLead(id) /\ UNCHANGED <<sessionVars, fetching, guard, pageVars>>
  \/ \E id \in UserIds, tr \in ApprovalTransitions :
        ApprovalsPageMutation(id, tr[1], tr[2]) /\ UNCHANGED <<sessionVars, fetching, guard, pageVars>>
  \/ \E id \in UserIds, tr \in UserTransitions :
        UsersPageMutation(id, tr[1], tr[2]) /\ UNCHANGED <<sessionVars, fetching, guard, pageVars>>

-----------------------------------------------------------------------------
(* Mutations of LeadsPage and UsersPage with their outcome *)

LeadsPageMutations == {"deleteMutation", "createMutation", "updateMutation", "importMutation"}
UsersPageMutations ==
  {"approveMutation", "rejectMutation", "deactivateMutation", "reactivateMutation"}

\* the errors of a write call that the response interceptor hands to the caller
MutationErrors == {r \in ErrorResponses : ~EntersRefreshProtocol(r)}

\* importMutation.onError: error.response?.data?.detail || 'Failed to import leads';
\* the other mutations have no onError
MutationErrorMessage(m, r) ==
  IF m # "importMutation" THEN ""
  ELSE IF r.status = "network" \/ r.detail = "" THEN "Failed to import leads"
  ELSE r.detail

\* useMutation after its mutationFn resolved
MutationSuccess(m) == [name |-> m, status |-> "success", error |-> NoResp, message |-> ""]

\* useMutation after its mutationFn rejected with r
MutationError(m, r) ==
  [name |-> m, status |-> "error", error |-> r, message |-> MutationErrorMessage(m, r)]

MutationFailsInvalidates(m, r) ==
  /\ mutation' = MutationError(m, r)
  /\ cache' = InvalidateQueries(cache, IF m \in LeadsPageMutations THEN <<"leads">> ELSE <<"users">>)
  /\ UNCHANGED <<backendLeads, backendUsers>>

\* the mutationFn of m rejects with r: onSuccess does not run
MutationFails(m, r) ==
  /\ mutation' = MutationError(m, r)
  /\ UNCHANGED <<backendLeads, backendUsers, cache>>

\* the user mutation of UsersPage that makes the state change tr
UsersPageMutationOf(tr) ==
  CASE tr = <<"pending", "active">> -> "approveMutation"
    [] tr = <<"pending", "rejected">> -> "rejectMutation"
    [] tr = <<"active", "inactive">> -> "deactivateMutation"
    [] tr = <<"inactive", "active">> -> "reactivateMutation"

MutateNext ==
  \/ ReadQuery(LeadsKey) /\ UNCHANGED <<sessionVars, fetching, guard, mutation, leadView, pager, listing, view>>
  \/ ReadQuery(UsersKey) /\ UNCHANGED <<sessionVars, fetching, guard, mutation, leadView, pager, listing, view>>
  \/ \E key \in {LeadsKey, UsersKey} :
        BecomeStale(key) /\ UNCHANGED <<sessionVars, fetching, guard, mutation, leadView, pager, listing, view>>
  \/ \E id \in LeadIds, m \in {"createMutation", "importMutation"} :
        /\ CreateLead(id) /\ mutation' = MutationSuccess(m)
        /\ UNCHANGED <<sessionVars, fetching, guard, leadView, pager, listing, view>>
  \/ \E id \in LeadIds, st \in LeadStatuses :
        /\ UpdateLead(id, st) /\ mutation' = MutationSuccess("updateMutation")
        /\ UNCHANGED <<sessionVars, fetching, guard, leadView, pager, listing, view>>
  \/ \E id \in LeadIds :
        /\ DeleteLead(id) /\ mutation' = MutationSuccess("deleteMutation")
        /\ UNCHANGED <<sessionVars, fetching, guard, leadView, pager, listing, view>>
  \/ \E id \in UserIds, tr \in UserTransitions :
        /\ UsersPageMutation(id, tr[1], tr[2]) /\ mutation' = MutationSuccess(UsersPageMutationOf(tr))
        /\ UNCHANGED <<sessionVars, fetching, guard, leadView, pager, listing, view>>
  \/ \E m \in LeadsPageMutations \cup UsersPageMutations, r \in MutationErrors :
        /\ MutationFails(m, r)
        /\ UNCHANGED <<sessionVars, fetching, guard, leadView, pager, listing, view>>

-----------------------------------------------------------------------------
(* Queries in flight: what useQuery sends, and when *)

\* the call the queryFn of a key makes: the endpoint function and its parameters
QueryFn(key) ==
  IF key = LeadsKey
    THEN [fn |-> "leadsApi.listLeads", page |-> key[2], page_size |-> 20, id |-> 0]
  ELSE IF key = LeadsStatsKey
    THEN [fn |-> "leadsApi.listLeads", page |-> 1, page_size |-> 100, id |-> 0]
  ELSE IF key = UsersKey
    THEN [fn |-> "usersApi.listUsers", page |-> key[2], page_size |-> 20, id |-> 0]
  ELSE IF key = PendingUsersKey
    THEN [fn |-> "usersApi.listUsers", page |-> key[2], page_size |-> 20, id |-> 0]
  ELSE IF key = UsersStatsKey
    THEN [fn |-> "usersApi.listUsers", page |-> 1, page_size |-> 100, id |-> 0]
  ELSE [fn |-> "leadsApi.getLead", page |-> 0, page_size |-> 0, id |-> key[2]]

\* a page with a useQuery of key is mounted: cached fresh data is served as it
\* is, a fetch of the key already in flight is joined, otherwise the queryFn
\* is called
StartFetch(key) ==
  /\ key \notin fetching
  /\ cache[key].status = "none" \/ cache[key].stale
  /\ fetching' = fetching \cup {key}
  /\ UNCHANGED <<backendLeads, backendUsers, cache>>

\* the queryFn call of key resolves: its result is cached for every observer
FetchSucceeds(key) ==
  /\ key \in fetching
  /\ ~FetchFails(key, backendLeads)
  /\ cache' = [cache EXCEPT ![key] =
        [status |-> "success", data |-> Fetch(key, backendLeads, backendUsers), stale |-> FALSE]]
  /\ fetching' = fetching \ {key}
  /\ UNCHANGED <<backendLeads, backendUsers>>

\* the queryFn call of key rejects: what is cached stays
FetchRejected(key) ==
  /\ key \in fetching
  /\ FetchFails(key, backendLeads)
  /\ fetching' = fetching \ {key}
  /\ UNCHANGED <<backendLeads, backendUsers, cache>>

FetchNext ==
  \/ \E key \in QueryKeys : StartFetch(key) /\ UNCHANGED <<sessionVars, guard, pageVars>>
  \/ \E key \in QueryKeys : FetchSucceeds(key) /\ UNCHANGED <<sessionVars, guard, pageVars>>
  \/ \E key \in QueryKeys : FetchRejected(key) /\ UNCHANGED <<sessionVars, guard, pageVars>>
  \/ \E key \in QueryKeys : BecomeStale(key) /\ UNCHANGED <<sessionVars, fetching, guard, pageVars>>

-----------------------------------------------------------------------------
(* LeadDetailPage and TelegramChat: the reads by id *)

Digits == <<"0", "1", "2", "3", "4", "5", "6", "7", "8", "9">>
IsDigit(ch) == \E d \in 1..Len(Digits) : Digits[d] = ch

\* the route ids /dashboard/leads/[id] is opened with, as character sequences
RouteIds ==
  {<<"7">>, <<"1", "2">>, <<"7", "a">>, <<"a", "b", "c">>, <<" ", "7">>, <<"-", "7">>, <<>>}

RECURSIVE SkipWhiteSpace(_)
SkipWhiteSpace(s) ==
  IF s # <<>> /\ Head(s) = " " THEN SkipWhiteSpace(Tail(s)) ELSE s

RECURSIVE LeadingDigits(_)
LeadingDigits(s) ==
  IF s # <<>> /\ IsDigit(Head(s)) THEN <<Head(s)>> \o LeadingDigits(Tail(s)) ELSE <<>>

RECURSIVE DecimalValue(_)
DecimalValue(ds) ==
  IF ds = <<>> THEN 0
  ELSE 10 * DecimalValue(SubSeq(ds, 1, Len(ds) - 1)) + (CHOOSE d \in 1..Len(Digits) : Digits[d] = ds[Len(ds)]) - 1

\* parseInt(string): leading white space is skipped, a sign is read, then the
\* longest run of digits; what follows is ignored. <<>> stands for NaN.
ParseInt(s) ==
  LET t == SkipWhiteSpace(s)
      neg == t # <<>> /\ Head(t) = "-"
      u == IF t # <<>> /\ Head(t) \in {"-", "+"} THEN Tail(t) ELSE t
      ds == LeadingDigits(u)
  IN IF ds = <<>> THEN <<>>
     ELSE IF neg THEN <<0 - DecimalValue(ds)>> ELSE <<DecimalValue(ds)>>

IsNaN(n) == n = <<>>

\* !!activeSessionId
Truthy(n) == n # <<>> /\ n[1] # 0

\* the ids of the chat sessions the backend can report as active
SessionIds == {0, 5}

DetailKey(leadId) == <<"lead">> \o leadId
MessagesKey(sessionId) == <<"chat-messages", "session">> \o sessionId

LeadQueryAlwaysEnabled(leadId) == TRUE

\* enabled: !isNaN(leadId)
LeadQueryEnabled(leadId) == ~IsNaN(leadId)

\* enabled: !!activeSessionId
MessagesQueryEnabled(sessionId) == Truthy(sessionId)

\* the keys useQuery starts to fetch when it is rendered with key and enabled
Observe(key, enabled) ==
  IF enabled /\ key \notin fetching /\ (key \notin DOMAIN cache \/ cache[key].status = "none" \/ cache[key].stale)
  THEN fetching \cup {key} ELSE fetching

\* /dashboard/leads/[id] is opened: leadId = parseInt(params.id), and the
\* lead query is rendered
OpenLeadDetail(rid) ==
  /\ ~leadView.open
  /\ leadView' = [open |-> TRUE, id |-> rid, chat |-> FALSE, activeSessionId |-> <<>>]
  /\ fetching' = Observe(DetailKey(ParseInt(rid)), LeadQueryEnabled(ParseInt(rid)))
  /\ UNCHANGED cacheVars

CloseLeadDetail ==
  /\ leadView.open
  /\ leadView' = NoDetail
  /\ UNCHANGED <<cacheVars, fetching>>

\* TelegramChat is rendered for the lead: activeSessionId starts as null
TelegramChatMounts ==
  /\ leadView.open /\ ~leadView.chat /\ ~IsNaN(ParseInt(leadView.id))
  /\ leadView' = [leadView EXCEPT !.chat = TRUE, !.activeSessionId = <<>>]
  /\ fetching' = Observe(MessagesKey(<<>>), MessagesQueryEnabled(<<>>))
  /\ UNCHANGED cacheVars

\* the sessions query resolves (again every 5 s): the effect stores the id of
\* the active Telegram session when there is one, and the messages query is
\* rendered with the new id
SessionsQueryResolves(active) ==
  /\ leadView.chat
  /\ LET sid == IF active # <<>> THEN active ELSE leadView.activeSessionId
     IN /\ leadView' = [leadView EXCEPT !.activeSessionId = sid]
        /\ fetching' = Observe(MessagesKey(sid), MessagesQueryEnabled(sid))
  /\ UNCHANGED cacheVars

\* a read by id settles: getLead of a lead the backend holds is cached
DetailFetchSettles(key) ==
  /\ key \in fetching
  /\ fetching' = fetching \ {key}
  /\ IF key \in DOMAIN cache /\ ~FetchFails(key, backendLeads)
       THEN cache' = [cache EXCEPT ![key] =
              [status |-> "success", data |-> Fetch(key, backendLeads, backendUsers), stale |-> FALSE]]
       ELSE UNCHANGED cache
  /\ UNCHANGED <<backendLeads, backendUsers, leadView>>

DetailNext ==
  \/ \E rid \in RouteIds :
        OpenLeadDetail(rid) /\ UNCHANGED <<sessionVars, guard, mutation, pager, listing, view>>
  \/ CloseLeadDetail /\ UNCHANGED <<sessionVars, guard, mutation, pager, listing, view>>
  \/ TelegramChatMounts /\ UNCHANGED <<sessionVars, guard, mutation, pager, listing, view>>
  \/ \E active \in {<<>>} \cup {<<s>> : s \in SessionIds} :
        SessionsQueryResolves(active) /\ UNCHANGED <<sessionVars, guard, mutation, pager, listing, view>>
  \/ \E key \in {DetailKey(ParseInt(rid)) : rid \in RouteIds}
                   \cup {MessagesKey(<<s>>) : s \in SessionIds}
                   \cup {DetailKey(<<>>), MessagesKey(<<>>)} :
        DetailFetchSettles(key) /\ UNCHANGED <<sessionVars, guard, mutation, pager, listing, view>>
  \/ \E key \in {LeadKey(id) : id \in LeadIds} :
        BecomeStale(key) /\ UNCHANGED <<sessionVars, fetching, guard, pageVars>>

-----------------------------------------------------------------------------
(* The pages of the dashboard: their guards and the queries of their bodies *)

Views == {"dashboard", "leads", "users", "approvals"}

\* the props of the <RouteGuard> a page wraps its content in
ViewReq(v) ==
  CASE v = "users" -> [requireApproval |-> FALSE, requireAdmin |-> FALSE, requireManager |-> TRUE]
    [] v = "approvals" -> [requireApproval |-> FALSE, requireAdmin |-> TRUE, requireManager |-> FALSE]
    [] OTHER -> DashboardReq

\* the useQuery calls in the body of a page, with the value of enabled
ViewQueries(v, s) ==
  CASE v = "dashboard" -> {<<LeadsStatsKey, TRUE>>, <<UsersStatsKey, s.user.present /\ s.user.can_manage>>}
    [] v = "leads" -> {<<LeadsKey, TRUE>>}
    [] v = "users" -> {<<UsersKey, s.user.present /\ s.user.can_manage>>}
    [] v = "approvals" -> {<<PendingUsersKey, TRUE>>}
    [] OTHER -> {}

\* the body of page v is rendered with session s: its enabled queries fetch
\* what is not cached fresh and not in flight
RenderView(v, s) ==
  fetching \cup {q[1] : q \in {q \in ViewQueries(v, s) :
                    q[2] /\ q[1] \notin fetching /\ (cache[q[1]].status = "none" \/ cache[q[1]].stale)}}

\* the user opens a page of the dashboard
ViewMounts(v) ==
  /\ view = "none"
  /\ location = "/dashboard"
  /\ RouteGuardRender(auth, DashboardReq) = "children"
  /\ view' = v
  /\ fetching' = RenderView(v, auth)
  /\ UNCHANGED <<sessionVars, cacheVars>>

ViewUnmounts ==
  /\ view # "none"
  /\ view' = "none"
  /\ UNCHANGED <<sessionVars, cacheVars, fetching>>

\* the store changes under a mounted page: the layout and the page render again
ViewRendersAgain ==
  IF view # "none" /\ RouteGuardRender(auth', DashboardReq) = "children"
    THEN view' = view /\ fetching' = RenderView(view, auth')
    ELSE view' = "none" /\ fetching' = fetching

ViewSetUser(u) == SetUser(u) /\ ViewRendersAgain /\ UNCHANGED cacheVars
ViewClearAuth == ClearAuth /\ ViewRendersAgain /\ UNCHANGED cacheVars

\* the queryFn call of key rejects with an error of the backend
ViewFetchRejected(key) ==
  /\ key \in fetching
  /\ fetching' = fetching \ {key}
  /\ UNCHANGED <<backendLeads, backendUsers, cache>>

ViewsNext ==
  \/ \E v \in Views : ViewMounts(v) /\ UNCHANGED <<guard, mutation, leadView, pager, listing>>
  \/ ViewUnmounts /\ UNCHANGED <<guard, mutation, leadView, pager, listing>>
  \/ \E u \in Profiles : ViewSetUser(u) /\ UNCHANGED <<guard, mutation, leadView, pager, listing>>
  \/ ViewClearAuth /\ UNCHANGED <<guard, mutation, leadView, pager, listing>>
  \/ \E key \in QueryKeys \ {LeadKey(id) : id \in LeadIds} : FetchSucceeds(key) /\ UNCHANGED <<sessionVars, guard, pageVars>>
  \/ \E key \in QueryKeys \ {LeadKey(id) : id \in LeadIds} : ViewFetchRejected(key) /\ UNCHANGED <<sessionVars, guard, pageVars>>
  \/ \E key \in QueryKeys \ {LeadKey(id) : id \in LeadIds} : BecomeStale(key) /\ UNCHANGED <<sessionVars, fetching, guard, pageVars>>

-----------------------------------------------------------------------------
(* Specification of the session layer *)

LoginPayloads ==
  [user : Profiles, access_token : AccessTokens, refresh_token : RefreshTokens \cup {Absent}]

SessionInit ==
  /\ auth = InitialAuthState
  /\ authStorage = NoStorage
  /\ ls = NoTokens
  /\ location = "/"
  /\ calls = AbandonedCalls

Init ==
  /\ SessionInit
  /\ backendLeads = [id \in LeadIds |-> "none"]
  /\ backendUsers = [id \in UserIds |-> "pending"]
  /\ cache = [key \in QueryKeys |-> NoEntry]
  /\ fetching = {}
  /\ guard = NoGuard /\ PageInit

Next ==
  \/ \E c \in OneAtATime : StartQuery(c) /\ UNCHANGED <<cacheVars, fetching, guard, pageVars>>
  \/ \E c \in OneAtATime : StartLogin(c) /\ UNCHANGED <<cacheVars, fetching, guard, pageVars>>
  \/ \E c \in OneAtATime : StartLogout(c) /\ UNCHANGED <<cacheVars, fetching, guard, pageVars>>
  \/ \E c \in OneAtATime : StartRefreshUser(c) /\ UNCHANGED <<cacheVars, fetching, guard, pageVars>>
  \/ \E c \in OneAtATime : QuerySucceeds(c) /\ UNCHANGED <<cacheVars, fetching, guard, pageVars>>
  \/ \E c \in OneAtATime, p \in LoginPayloads : LoginSucceeds(c, p) /\ UNCHANGED <<cacheVars, fetching, guard, pageVars>>
  \/ \E c \in OneAtATime : LogoutSucceeds(c) /\ UNCHANGED <<cacheVars, fetching, guard, pageVars>>
  \/ \E c \in OneAtATime, u \in Profiles : RefreshUserSucceeds(c, u) /\ UNCHANGED <<cacheVars, fetching, guard, pageVars>>
  \/ \E c \in OneAtATime, r \in ErrorResponses : RequestFails(c, r) /\ UNCHANGED <<cacheVars, fetching, guard, pageVars>>
  \/ \E c \in OneAtATime, a \in AccessTokens, nr \in RotatedRefreshTokens \cup {Absent} :
        RefreshSucceeds(c, a, nr) /\ UNCHANGED <<cacheVars, fetching, guard, pageVars>>
  \/ \E c \in OneAtATime : RefreshFails(c) /\ UNCHANGED <<cacheVars, fetching, guard, pageVars>>
  \/ \E u \in Profiles : SetUser(u) /\ UNCHANGED <<cacheVars, fetching, guard, pageVars>>
  \/ \E a \in AccessTokens, r \in RefreshTokens \cup {Absent} : SetTokens(a, r) /\ UNCHANGED <<cacheVars, fetching, guard, pageVars>>
  \/ ClearAuth /\ UNCHANGED <<cacheVars, fetching, guard, pageVars>>
  \/ \E p \in Paths : Visit(p) /\ UNCHANGED <<cacheVars, fetching, guard, pageVars>>
  \/ LoginPageEffect /\ UNCHANGED <<cacheVars, fetching, guard, pageVars>>
  \/ RouteGuardEffect /\ UNCHANGED <<cacheVars, fetching, guard, pageVars>>
  \/ HomeEffect /\ UNCHANGED <<cacheVars, fetching, guard, pageVars>>

Spec == Init /\ [][Next]_vars

-----------------------------------------------------------------------------
(* Specification of the Resource Query Layer *)

CacheSpecInit == SessionInit /\ CacheInit /\ fetching = {} /\ guard = NoGuard /\ PageInit

SpecCache == CacheSpecInit /\ [][CacheNext]_vars

-----------------------------------------------------------------------------
(* Specification of requests in flight together: a signed-in user on the     *)
(* dashboard, whose pages issue their requests side by side                  *)

ConcurrentInit ==
  /\ \E p \in LoginPayloads :
       /\ p.user.is_approved /\ p.refresh_token # Absent
       /\ auth = LoginFulfilled(InitialAuthState, p)
       /\ ls = LoginTokens(NoTokens, p)
  /\ authStorage = Persist(auth)
  /\ location = "/dashboard"
  /\ calls = AbandonedCalls
  /\ backendLeads = [id \in LeadIds |-> "none"]
  /\ backendUsers = [id \in UserIds |-> "pending"]
  /\ cache = [key \in QueryKeys |-> NoEntry]
  /\ fetching = {}
  /\ guard = NoGuard /\ PageInit

ConcurrentNext ==
  \/ \E c \in Calls : StartQuery(c) /\ UNCHANGED <<cacheVars, fetching, guard, pageVars>>
  \/ \E c \in Calls : QuerySucceeds(c) /\ UNCHANGED <<cacheVars, fetching, guard, pageVars>>
  \/ \E c \in Calls, r \in ErrorResponses : RequestFails(c, r) /\ UNCHANGED <<cacheVars, fetching, guard, pageVars>>
  \/ \E c \in Calls, a \in AccessTokens, nr \in RotatedRefreshTokens \cup {Absent} :
        RefreshSucceeds(c, a, nr) /\ UNCHANGED <<cacheVars, fetching, guard, pageVars>>
  \/ \E c \in Calls : RefreshFails(c) /\ UNCHANGED <<cacheVars, fetching, guard, pageVars>>

SpecConcurrent == ConcurrentInit /\ [][ConcurrentNext]_vars

-----------------------------------------------------------------------------
(* Specification of the mounted RouteGuard *)

SpecGuard == Init /\ [][GuardNext]_vars

-----------------------------------------------------------------------------
(* Specification of the mutations with their outcome *)

SpecMutate == CacheSpecInit /\ [][MutateNext]_vars

-----------------------------------------------------------------------------
(* Specification of the reads by id *)

SpecDetail == CacheSpecInit /\ [][DetailNext]_vars

-----------------------------------------------------------------------------
(* Specification of the pages of the dashboard *)

\* a user is logged in and the dashboard is open
ViewsInit ==
  /\ \E p \in LoginPayloads :
       /\ auth = LoginFulfilled(InitialAuthState, p)
       /\ ls = LoginTokens(NoTokens, p)
  /\ authStorage = Persist(auth)
  /\ location = "/dashboard"
  /\ calls = AbandonedCalls
  /\ backendLeads = [id \in LeadIds |-> "new"]
  /\ backendUsers = [id \in UserIds |-> "pending"]
  /\ cache = [key \in QueryKeys |-> NoEntry]
  /\ fetching = {}
  /\ guard = NoGuard /\ PageInit

SpecViews == ViewsInit /\ [][ViewsNext]_vars

-----------------------------------------------------------------------------
(* Specification of logout racing with requests in flight *)

\* the error outcomes drawn from: one that enters the refresh protocol, one
\* that is handed to the caller
RaceErrors == {r \in ErrorResponses : r.status \in {"401", "network"}}

\* the login responses drawn from: an approved user with both tokens
RacePayloads ==
  {p \in LoginPayloads : p.user.is_approved /\ ~p.user.can_manage /\ p.refresh_token # Absent}

RaceInit ==
  /\ \E p \in RacePayloads :
       /\ auth = LoginFulfilled(InitialAuthState, p)
       /\ ls = LoginTokens(NoTokens, p)
  /\ authStorage = Persist(auth)
  /\ location = "/dashboard"
  /\ calls = AbandonedCalls
  /\ backendLeads = [id \in LeadIds |-> "none"]
  /\ backendUsers = [id \in UserIds |-> "pending"]
  /\ cache = [key \in QueryKeys |-> NoEntry]
  /\ fetching = {}
  /\ guard = NoGuard /\ PageInit

RaceNext ==
  \/ \E c \in Calls : StartQuery(c) /\ UNCHANGED <<cacheVars, fetching, guard, pageVars>>
  \/ \E c \in Calls : StartLogout(c) /\ UNCHANGED <<cacheVars, fetching, guard, pageVars>>
  \/ \E c \in Calls : StartRefreshUser(c) /\ UNCHANGED <<cacheVars, fetching, guard, pageVars>>
  \/ \E c \in Calls : StartLogin(c) /\ UNCHANGED <<cacheVars, fetching, guard, pageVars>>
  \/ \E c \in Calls : QuerySucceeds(c) /\ UNCHANGED <<cacheVars, fetching, guard, pageVars>>
  \/ \E c \in Calls : LogoutSucceeds(c) /\ UNCHANGED <<cacheVars, fetching, guard, pageVars>>
  \/ \E c \in Calls, u \in Profiles :
        RefreshUserSucceeds(c, u) /\ UNCHANGED <<cacheVars, fetching, guard, pageVars>>
  \/ \E c \in Calls, p \in RacePayloads :
        LoginSucceeds(c, p) /\ UNCHANGED <<cacheVars, fetching, guard, pageVars>>
  \/ \E c \in Calls, r \in RaceErrors : RequestFails(c, r) /\ UNCHANGED <<cacheVars, fetching, guard, pageVars>>
  \/ \E c \in Calls, a \in AccessTokens, nr \in RotatedRefreshTokens \cup {Absent} :
        RefreshSucceeds(c, a, nr) /\ UNCHANGED <<cacheVars, fetching, guard, pageVars>>
  \/ \E c \in Calls : RefreshFails(c) /\ UNCHANGED <<cacheVars, fetching, guard, pageVars>>
  \/ LoginPageEffect /\ UNCHANGED <<cacheVars, fetching, guard, pageVars>>
  \/ \E p \in Paths : Visit(p) /\ UNCHANGED <<cacheVars, fetching, guard, pageVars>>

SpecRace == RaceInit /\ [][RaceNext]_vars

-----------------------------------------------------------------------------
(* LeadsPage: page, search text, status filter and the pagination controls *)

PageSize == 20
MaxLeads == 41

\* the texts typed into the search box and the options of the status select
SearchTexts == {"", "acme"}
StatusOptions == {"ALL", "NEW", "WON"}

\* the leads of the backend, as counts: `matching` leads contain "acme" and
\* have status NEW, `other` leads do not contain it and have status WON
Listings ==
  {l \in [matching : 0..MaxLeads, other : 0..MaxLeads] : l.matching + l.other <= MaxLeads}

\* data.total of listLeads({page, page_size, search, status})
Total(l, pg) ==
  (IF pg.statusFilter \in {"ALL", "NEW"} THEN l.matching ELSE 0)
    + (IF pg.search = "" /\ pg.statusFilter \in {"ALL", "WON"} THEN l.other ELSE 0)

\* data.items of the current page, as a count
ItemsOnPage(l, pg) ==
  LET rest == Total(l, pg) - (pg.page - 1) * PageSize
  IN IF rest <= 0 THEN 0 ELSE IF rest > PageSize THEN PageSize ELSE rest

\* Next: setPage(p => p + 1), disabled when page * page_size >= total
ClickNext ==
  /\ Total(listing, pager) > PageSize
  /\ ~(pager.page * PageSize >= Total(listing, pager))
  /\ pager' = [pager EXCEPT !.page = @ + 1]
  /\ UNCHANGED listing

\* Previous: setPage(p => Math.max(1, p - 1)), disabled when page === 1
ClickPrevious ==
  /\ Total(listing, pager) > PageSize
  /\ pager.page # 1
  /\ pager' = [pager EXCEPT !.page = IF @ - 1 < 1 THEN 1 ELSE @ - 1]
  /\ UNCHANGED listing

\* the search input's onChange: setSearch(e.target.value)
EditSearch(text) ==
  /\ text # pager.search
  /\ pager' = [pager EXCEPT !.search = text]
  /\ UNCHANGED listing

\* handleSearch, on submit of the filter form: setPage(1)
HandleSearch ==
  /\ pager' = [pager EXCEPT !.page = 1]
  /\ UNCHANGED listing

\* the status select's onChange: setStatusFilter(value); setPage(1)
ChangeStatusFilter(st) ==
  /\ st # pager.statusFilter
  /\ pager' = [pager EXCEPT !.statusFilter = st, !.page = 1]
  /\ UNCHANGED listing

\* handleDelete of a row of the current page; the list is fetched again
DeleteListedLead(kind) ==
  /\ ItemsOnPage(listing, pager) > 0
  /\ listing[kind] > 0
  /\ Total([listing EXCEPT ![kind] = 0], pager) < Total(listing, pager)
  /\ listing' = [listing EXCEPT ![kind] = @ - 1]
  /\ UNCHANGED pager

\* the create form is submitted; the list is fetched again
CreateListedLead(kind) ==
  /\ listing.matching + listing.other < MaxLeads
  /\ listing' = [listing EXCEPT ![kind] = @ + 1]
  /\ UNCHANGED pager

PagingInit ==
  /\ SessionInit
  /\ backendLeads = [id \in LeadIds |-> "none"]
  /\ backendUsers = [id \in UserIds |-> "pending"]
  /\ cache = [key \in QueryKeys |-> NoEntry]
  /\ fetching = {} /\ guard = NoGuard
  /\ mutation = NoMutation /\ leadView = NoDetail /\ view = "none"
  /\ pager = NoPager
  /\ listing \in Listings

PagingNext ==
  \/ ClickNext /\ UNCHANGED <<sessionVars, cacheVars, fetching, guard, mutation, leadView, view>>
  \/ ClickPrevious /\ UNCHANGED <<sessionVars, cacheVars, fetching, guard, mutation, leadView, view>>
  \/ \E text \in SearchTexts :
        EditSearch(text) /\ UNCHANGED <<sessionVars, cacheVars, fetching, guard, mutation, leadView, view>>
  \/ HandleSearch /\ UNCHANGED <<sessionVars, cacheVars, fetching, guard, mutation, leadView, view>>
  \/ \E st \in StatusOptions :
        ChangeStatusFilter(st) /\ UNCHANGED <<sessionVars, cacheVars, fetching, guard, mutation, leadView, view>>
  \/ \E kind \in {"matching", "other"} :
        DeleteListedLead(kind) /\ UNCHANGED <<sessionVars, cacheVars, fetching, guard, mutation, leadView, view>>
  \/ \E kind \in {"matching", "other"} :
        CreateListedLead(kind) /\ UNCHANGED <<sessionVars, cacheVars, fetching, guard, mutation, leadView, view>>

SpecPaging == PagingInit /\ [][PagingNext]_vars

-----------------------------------------------------------------------------
(* Specification of the queries in flight *)

SpecFetch == CacheSpecInit /\ [][FetchNext]_vars


-----------------------------------------------------------------------------
(* Derived accessors: useIsAdmin, useCanManage, and the approval flag, each  *)
(* false when there is no profile                                            *)

IsApproved(s) == s.user.present /\ s.user.is_approved
IsAdmin(s) == s.user.present /\ s.user.is_admin
CanManage(s) == s.user.present /\ s.user.can_manage

-----------------------------------------------------------------------------
(* Properties *)

\* the Session is fully cleared: the store holds no user and no tokens and
\* localStorage holds neither token
SessionCleared(s, l) ==
  /\ ~s.isAuthenticated
  /\ ~s.user.present
  /\ s.accessToken = Absent /\ s.refreshToken = Absent
  /\ l = NoTokens

\* the tokens as the store holds them
StoreTokens(s) == [access_token |-> s.accessToken, refresh_token |-> s.refreshToken]

\* the session-invalidity patterns as the specification lists them
SessionPatterns == {"expired", "invalid", "deactivated", "not active", "pending approval"}
MatchesSessionPattern(d) == \E pat \in SessionPatterns : Includes(Chars(d), Chars(pat))
PlainForbidden(r) == r.status = "403" /\ ~MatchesSessionPattern(r.detail)
SessionForbidden(r) == r.status = "403" /\ MatchesSessionPattern(r.detail)

\* C1: in every reachable state of the auth store, isAuthenticated implies that
\* accessToken and user are both present.
C1_AuthenticatedHasTokenAndUser ==
  auth.isAuthenticated => (auth.accessToken # Absent /\ auth.user.present)

\* C2: when a request failed with 401 and the refresh call succeeded, the request
\* re-issued is the single retry of the originating request (its second send) and
\* carries the new access token.
C2_RetriedExactlyOnce ==
  [][\A c \in Calls :
       (calls[c].pc = "refreshing" /\ calls[c].resp.status = "401" /\ calls'[c].pc = "sent")
         => (calls'[c].sends = 2 /\ calls'[c].hdr = ls'.access_token)]_vars

\* C3: when the refresh call of a request fails, the Session is fully cleared and
\* exactly one redirect to /login is made for the request.
C3_RefreshFailureClearsSession ==
  [][\A c \in Calls :
       (calls[c].pc = "refreshing" /\ calls'[c].pc = "done")
         => (/\ SessionCleared(auth', ls')
             /\ calls'[c].redir = 1
             /\ location' = "/login")]_vars

\* the condition C4 gives for rendering the protected content
GuardCondition(s, req) ==
  /\ s.isAuthenticated
  /\ ~req.requireApproval \/ IsApproved(s)
  /\ ~req.requireAdmin \/ IsAdmin(s)
  /\ ~req.requireManager \/ CanManage(s)

\* C4 (as claimed): for every requirement set, RouteGuard renders its children
\* if and only if isAuthenticated and every declared requirement holds.
C4_RendersIffAuthorized ==
  \A req \in Reqs : (RouteGuardRender(auth, req) = "children") <=> GuardCondition(auth, req)

\* C4 (amended): for every requirement set, RouteGuard renders its children if
\* and only if the session is not loading, a user profile is present,
\* isAuthenticated holds and every declared requirement holds.
C4_RendersIffAuthorizedAndLoaded ==
  \A req \in Reqs :
    (RouteGuardRender(auth, req) = "children")
      <=> (~auth.isLoading /\ auth.user.present /\ GuardCondition(auth, req))

\* the dashboard is shown to an approved user: the guard has rendered its children
C4_Witness ==
  /\ DashboardRendered
  /\ GuardCondition(auth, DashboardReq)
  /\ \E req \in Reqs : RouteGuardRender(auth, req) = "null"

\* C5: whenever logout settles - the backend call having succeeded, failed or
\* timed out - localStorage holds no token, the store holds no user, no tokens
\* and isAuthenticated = false, and the user is on /login.
C5_LogoutAlwaysClears ==
  [][\A c \in Calls :
       (calls[c].op = "logout" /\ calls[c].pc \in {"sent", "refreshing"} /\ calls'[c].pc = "done")
         => (SessionCleared(auth', ls') /\ location' = "/login")]_vars

\* a logout whose backend call timed out has settled with everything cleared
C5_Witness ==
  \E c \in Calls :
    /\ calls[c].op = "logout" /\ calls[c].pc = "done"
    /\ calls[c].resp.status = "network"
    /\ SessionCleared(auth, ls)
    /\ location = "/login"

\* C6: right after setTokens(a, r) the tokens read back - by the HTTP client from
\* localStorage, by the store, and by the store after a reload - are a and r
\* (r absent when it was not given); right after clearAuth both are absent.
C6_GetReflectsLastCall ==
  [][/\ \A a \in AccessTokens, r \in RefreshTokens \cup {Absent} :
          SetTokens(a, r) =>
            LET given == [access_token |-> a, refresh_token |-> r] IN
            /\ ls' = given
            /\ StoreTokens(auth') = given
            /\ StoreTokens(Rehydrate(authStorage')) = given
     /\ ClearAuth =>
            /\ ls' = NoTokens
            /\ StoreTokens(auth') = NoTokens
            /\ StoreTokens(Rehydrate(authStorage')) = NoTokens]_vars

\* C7: a 403 whose detail matches no session-invalidity pattern settles the call
\* with that error: no refresh request, no second send, no redirect, and (the
\* caller not being logout, which clears the tokens itself) the stored tokens
\* and the location unchanged.
C7_PlainForbiddenSurfaced ==
  [][\A c \in Calls :
       (calls[c].pc = "sent" /\ calls'[c].pc # "sent" /\ PlainForbidden(calls'[c].resp))
         => (/\ calls'[c].pc = "done"
             /\ calls'[c].refreshes = calls[c].refreshes
             /\ calls'[c].sends = calls[c].sends
             /\ calls'[c].redir = calls[c].redir
             /\ calls[c].op # "logout" => (ls' = ls /\ location' = location))]_vars

\* a query answered with a permission-denied 403 has settled with it, the tokens
\* still stored and the dashboard still shown
C7_Witness ==
  \E c \in Calls :
    /\ calls[c].pc = "done" /\ calls[c].op = "query"
    /\ PlainForbidden(calls[c].resp)
    /\ calls[c].sends = 1 /\ calls[c].refreshes = 0 /\ calls[c].redir = 0
    /\ ls.access_token # Absent /\ ls.refresh_token # Absent
    /\ location = "/dashboard"

\* C8: a 403 whose detail contains one of the session-invalidity patterns, with
\* a refresh token stored, makes the client call the refresh endpoint with that
\* refresh token; when the refresh succeeds the request is sent again with the
\* new access token.
C8_SessionForbiddenRefreshes ==
  [][\A c \in Calls :
       /\ (calls[c].pc = "sent" /\ calls'[c].pc # "sent"
             /\ SessionForbidden(calls'[c].resp) /\ ls.refresh_token # Absent)
            => (/\ calls'[c].pc = "refreshing"
                /\ calls'[c].body = ls.refresh_token
                /\ calls'[c].refreshes = calls[c].refreshes + 1)
       /\ (calls[c].pc = "refreshing" /\ SessionForbidden(calls[c].resp) /\ calls'[c].pc = "sent")
            => (/\ calls'[c].hdr = ls'.access_token
                /\ calls'[c].hdr \in AccessTokens
                /\ calls'[c].sends = calls[c].sends + 1)]_vars

\* a request answered 403 on a session error was refreshed, retried once, and
\* its caller received the retry's success
C8_Witness ==
  \E c \in Calls :
    /\ calls[c].pc = "done" /\ calls[c].via = "403"
    /\ calls[c].resp = OkResp
    /\ calls[c].sends = 2 /\ calls[c].refreshes = 1 /\ calls[c].redir = 0

\* C9: when a request enters the refresh protocol and no refresh token is
\* stored, no refresh request is issued, the session is cleared, a redirect to
\* /login is made and the call fails.
C9_NoRefreshTokenClearsSession ==
  [][\A c \in Calls :
       (calls[c].pc = "sent" /\ ls.refresh_token = Absent /\ calls'[c].pc # "sent"
          /\ (calls'[c].resp.status = "401" \/ SessionForbidden(calls'[c].resp)))
         => (/\ calls'[c].pc = "done"
             /\ calls'[c].refreshes = calls[c].refreshes
             /\ calls'[c].redir = calls[c].redir + 1
             /\ location' = "/login"
             /\ SessionCleared(auth', ls'))]_vars


\* C10: after a successful mutation of an entity, every cached entry of that
\* entity kind is invalidated, so that no read is served older data: an entry
\* that is cached and not marked stale holds what the backend holds now.
C10_FreshEntriesReflectMutations ==
  \A key \in QueryKeys :
    (cache[key].status = "success" /\ ~cache[key].stale)
      => cache[key].data = Fetch(key, backendLeads, backendUsers)

\* C11: two list calls with the same filter tuple that are in flight together
\* are one network call on one cache entry: no two query keys in flight make
\* the same call.
C11_IdenticalCallsShareOneFetch ==
  \A k1 \in fetching, k2 \in fetching : QueryFn(k1) = QueryFn(k2) => k1 = k2

\* a profile the backend has not approved yet is in the Session
Unapproved(s) == s.user.present /\ ~s.user.is_approved

C13_LoginOutcomes ==
  [][\A c \in Calls :
       (calls[c].op = "login" /\ calls[c].pc \in {"sent", "refreshing"} /\ calls'[c].pc = "done")
         => /\ ~auth'.isLoading
            /\ IF calls'[c].resp = OkResp
               THEN \E p \in LoginPayloads :
                      /\ ls'.access_token = p.access_token
                      /\ p.refresh_token # Absent => ls'.refresh_token = p.refresh_token
                      /\ auth'.accessToken = p.access_token
                      /\ auth'.refreshToken = p.refresh_token
                      /\ auth'.user = p.user
                      /\ auth'.isAuthenticated
                      /\ auth'.error = NoError
               ELSE /\ auth'.error = LoginErrorMessage(calls'[c].resp)
                    /\ ~auth'.isAuthenticated]_vars

\* C14: refreshUser sends its request only when the store holds an access token;
\* when the request fails, the user, the tokens of the store and isAuthenticated
\* are what they were and isLoading is false, and unless the HTTP client gave
\* the session up (its redirect) the stored tokens and the location stay too.
C14_RefreshUserNeverClears ==
  [][\A c \in Calls :
       /\ (calls[c].pc \in {"idle", "done"} /\ calls'[c].pc = "sent" /\ calls'[c].op = "refreshUser")
            => auth.accessToken # Absent
       /\ (calls[c].op = "refreshUser" /\ calls[c].pc \in {"sent", "refreshing"}
             /\ calls'[c].pc = "done" /\ calls'[c].resp # OkResp)
            => (/\ auth'.user = auth.user
                /\ StoreTokens(auth') = StoreTokens(auth)
                /\ auth'.isAuthenticated = auth.isAuthenticated
                /\ ~auth'.isLoading
                /\ calls'[c].redir = calls[c].redir => (ls' = ls /\ location' = location))]_vars

\* a refreshUser whose request was answered 500 has settled, the profile and
\* the tokens still there
C14_Witness ==
  \E c \in Calls :
    /\ calls[c].op = "refreshUser" /\ calls[c].pc = "done"
    /\ calls[c].resp.status = "500"
    /\ auth.isAuthenticated /\ auth.user.present
    /\ auth.accessToken # Absent /\ ls.access_token # Absent

\* C15: for one originating call the client issues at most one refresh request
\* and sends the request at most twice (the original and one retry).
C15_AtMostOneRefreshAndRetry ==
  \A c \in Calls : calls[c].refreshes <= 1 /\ calls[c].sends <= 2

\* a failure that is neither a 401 nor a 403: another HTTP error status, or no
\* response at all
OtherFailure(r) == r.status \in {"400", "500", "network"}

\* C20: a failure that is neither a 401 nor a 403 settles the call with that
\* error: no refresh request, no second send, no redirect, and (the caller not
\* being logout, which clears the tokens itself) the stored tokens and the
\* location unchanged.
C20_OtherFailuresSurfaced ==
  [][\A c \in Calls :
       (calls[c].pc = "sent" /\ calls'[c].pc # "sent" /\ OtherFailure(calls'[c].resp))
         => (/\ calls'[c].pc = "done"
             /\ calls'[c].refreshes = calls[c].refreshes
             /\ calls'[c].sends = calls[c].sends
             /\ calls'[c].redir = calls[c].redir
             /\ calls[c].op # "logout" => (ls' = ls /\ location' = location))]_vars

\* a query that met a network error has settled with it, the tokens still
\* stored and the dashboard still shown
C20_Witness ==
  \E c \in Calls :
    /\ calls[c].pc = "done" /\ calls[c].op = "query"
    /\ calls[c].resp.status = "network"
    /\ calls[c].sends = 1 /\ calls[c].refreshes = 0 /\ calls[c].redir = 0
    /\ ls.access_token # Absent /\ ls.refresh_token # Absent
    /\ location = "/dashboard"

\* C16: a request answered 401 gets a refresh request of its own, whatever the
\* other request is doing; and when its refresh succeeds with the token a, a is
\* stored, the retry is sent with a, and the session stays: the refresh token,
\* the store, the location and the other request are untouched.
C16_IndependentRefreshes ==
  [][\A c \in Calls :
       /\ (calls[c].pc = "sent" /\ calls'[c].pc = "refreshing" /\ calls'[c].resp.status = "401")
            => (/\ calls'[c].refreshes = calls[c].refreshes + 1
                /\ calls'[c].body = ls.refresh_token
                /\ calls'[c].body \in RefreshTokens)
       /\ \A a \in AccessTokens, nr \in RotatedRefreshTokens \cup {Absent} :
            (RefreshSucceeds(c, a, nr) /\ calls[c].resp.status = "401")
              => (/\ calls'[c].pc = "sent"
                  /\ calls'[c].hdr = a
                  /\ ls'.access_token = a
                  /\ ls'.refresh_token = ls.refresh_token
                  /\ auth' = auth /\ authStorage' = authStorage /\ location' = location
                  /\ \A d \in Calls \ {c} : calls'[d] = calls[d])]_vars

\* two requests were answered 401, each had its own refresh, and both retries
\* are in flight, each with the token its own refresh returned; the user is
\* still signed in on the dashboard
C16_Witness ==
  /\ \A c \in Calls :
       /\ calls[c].pc = "sent" /\ calls[c].via = "401"
       /\ calls[c].sends = 2 /\ calls[c].refreshes = 1
  /\ calls[1].hdr = "a1" /\ calls[2].hdr = "a2"
  /\ ls.refresh_token # Absent
  /\ auth.isAuthenticated /\ location = "/dashboard"

\* C17 (as claimed): while isLoading is true or no user profile is present, the
\* guard renders the loading placeholder and makes no redirect.
C17_CheckingNoRedirect ==
  \A req \in Reqs :
    (auth.isLoading \/ ~auth.user.present)
      => (RouteGuardRender(auth, req) = "loading" /\ RouteGuardRedirect(auth, req) = "none")

\* C17 (amended): while isLoading is true the guard renders the loading
\* placeholder and makes no redirect; while isLoading is false and no user
\* profile is present it renders the loading placeholder and redirects to
\* /login.
C17_LoadingNoRedirect ==
  \A req \in Reqs :
    /\ auth.isLoading
         => (RouteGuardRender(auth, req) = "loading" /\ RouteGuardRedirect(auth, req) = "none")
    /\ (~auth.isLoading /\ ~auth.user.present)
         => (RouteGuardRender(auth, req) = "loading" /\ RouteGuardRedirect(auth, req) = "/login")

\* the dashboard's guard is mounted while a profile refresh is loading for a
\* signed-in, unapproved user: it waits
C17_Witness ==
  /\ location = "/dashboard"
  /\ auth.isLoading /\ auth.isAuthenticated /\ Unapproved(auth)
  /\ RouteGuardRender(auth, DashboardReq) = "loading"
  /\ RouteGuardRedirect(auth, DashboardReq) = "none"

\* the redirect target C18 gives
ClaimedRedirect(s, req) ==
  IF ~s.isAuthenticated THEN "/login"
  ELSE IF req.requireApproval /\ ~IsApproved(s) THEN "/pending-approval"
  ELSE "/unauthorized"

\* C18 (as claimed): when the Session is not loading and the guard's condition
\* fails, the guard renders nothing and redirects to /login if not
\* authenticated, else to /pending-approval if requireApproval fails, else to
\* /unauthorized.
C18_FailingGuardRedirects ==
  \A req \in Reqs :
    (~auth.isLoading /\ ~GuardCondition(auth, req))
      => (/\ RouteGuardRender(auth, req) = "null"
          /\ RouteGuardRedirect(auth, req) = ClaimedRedirect(auth, req))

\* C18 (amended): when the Session is not loading and no user profile is present
\* or the guard's condition fails, the guard redirects to exactly one target -
\* /login if not authenticated or no user profile is present, else
\* /pending-approval if requireApproval fails, else /unauthorized - and renders
\* nothing, or the loading placeholder when no user profile is present.
C18_FailingGuardRedirectsWithProfile ==
  \A req \in Reqs :
    (~auth.isLoading /\ (~auth.user.present \/ ~GuardCondition(auth, req)))
      => (/\ RouteGuardRender(auth, req) = IF auth.user.present THEN "null" ELSE "loading"
          /\ RouteGuardRedirect(auth, req) =
               IF ~auth.user.present THEN "/login" ELSE ClaimedRedirect(auth, req))

\* the dashboard's guard is mounted for a signed-in user whose profile is not
\* approved: it renders nothing and is about to push /pending-approval
C18_Witness ==
  /\ location = "/dashboard"
  /\ ~auth.isLoading /\ auth.isAuthenticated /\ Unapproved(auth)
  /\ RouteGuardRender(auth, DashboardReq) = "null"
  /\ RouteGuardRedirect(auth, DashboardReq) = "/pending-approval"

\* the state of the guard as the specification names it, for the Session values
\* d and the requirement set req
GuardStateAt(d, req) ==
  IF d.isLoading \/ ~d.user.present THEN "CHECKING"
  ELSE IF ~d.isAuthenticated THEN "UNAUTHENTICATED"
  ELSE IF (req.requireApproval /\ ~d.user.is_approved)
            \/ (req.requireAdmin /\ ~d.user.is_admin)
            \/ (req.requireManager /\ ~d.user.can_manage) THEN "FORBIDDEN"
  ELSE "AUTHORIZED"

\* C19: when the guard is evaluated again while the navigation of its redirect
\* is under way and it is still in the same UNAUTHENTICATED or FORBIDDEN state
\* as at its last evaluation, it issues no further redirect.
C19_NoRedirectWithoutTransition ==
  [][(/\ guard.mounted /\ guard'.mounted
      /\ guard.ran /\ guard.pending # "none"
      /\ guard'.deps # guard.deps
      /\ GuardStateAt(guard'.deps, DashboardReq) = GuardStateAt(guard.deps, DashboardReq)
      /\ GuardStateAt(guard.deps, DashboardReq) \in {"UNAUTHENTICATED", "FORBIDDEN"})
       => ~guard'.pushed]_vars

IsNumeric(rid) == rid # <<>> /\ \A i \in 1..Len(rid) : IsDigit(rid[i])

\* the lead and message requests a step sends
LeadRequestsSent == {key \in fetching' \ fetching : key[1] = "lead"}
MessageRequestsSent == {key \in fetching' \ fetching : key[1] = "chat-messages"}

\* C22 (as stated): no lead request is sent for a route id that is not a
\* number, and no message request before an active session id is known.
C22_NonNumericIdSendsNothing ==
  [][/\ (leadView'.open /\ ~IsNumeric(leadView'.id)) => LeadRequestsSent = {}
     /\ leadView'.activeSessionId = <<>> => MessageRequestsSent = {}]_vars

\* C22 (amended): a lead request is sent only for the number parseInt reads
\* from the route id, and none when parseInt yields NaN; a message request is
\* sent only for the active session id the chat holds, and none while that id
\* is null or 0.
C22_NaNIdSendsNothing ==
  [][/\ IsNaN(ParseInt(leadView'.id)) => LeadRequestsSent = {}
     /\ LeadRequestsSent \subseteq {DetailKey(ParseInt(leadView'.id))}
     /\ ~Truthy(leadView'.activeSessionId) => MessageRequestsSent = {}
     /\ MessageRequestsSent \subseteq {MessagesKey(leadView'.activeSessionId)}]_vars

\* the detail page of /dashboard/leads/abc is open and nothing is being
\* fetched, after lead 7 was requested and cached on an earlier visit
C22_Witness ==
  /\ leadView.open /\ leadView.id = <<"a", "b", "c">>
  /\ fetching = {}
  /\ cache[LeadKey(7)].status = "success"

\* C23: a List/Get request is sent on behalf of a page only when the guard of
\* that page finds the session authorized for the page's requirements.
C23_ReadsOnlyWhenAuthorized ==
  [][(fetching' \ fetching # {} /\ view' # "none")
       => RouteGuardRender(auth', ViewReq(view')) = "children"]_vars

\* a logout has completed and no login was started since
LoggedOut ==
  /\ \E c \in Calls : calls[c].op = "logout" /\ calls[c].pc = "done"
  /\ \A c \in Calls : calls[c].op # "login"

\* C24: after logout has completed, localStorage holds no access_token until
\* the next login, whatever refresh response arrives afterwards.
C24_NoAccessTokenAfterLogout == LoggedOut => ls.access_token = Absent

\* C28: after logout has completed, user is null and isAuthenticated is false
\* until a login started after it succeeds, whatever call resolves afterwards.
C28_LoggedOutStaysLoggedOut ==
  LoggedOut => (~auth.isAuthenticated /\ ~auth.user.present)

\* C25: whenever no operation is in flight, the accessToken of the store is
\* the access_token of localStorage, and the two are absent together.
C25_StoreTokenIsStoredToken ==
  (\A c \in Calls : Free(c)) => auth.accessToken = ls.access_token

\* C26: once the client has cleared the tokens and redirected to the login
\* view, nothing navigates to /dashboard until a new login succeeds.
C26_StaysOnLoginAfterClear ==
  [][\A c \in Calls :
       (/\ calls[c].pc = "done" /\ calls[c].redir >= 1
        /\ location = "/login"
        /\ calls' = calls)
         => location' # "/dashboard"]_vars

\* C27: a successful silent refresh changes only the stored access token: the
\* stored refresh token, the store (user, isAuthenticated, its tokens), what is
\* persisted of it and the location are what they were.
C27_RefreshChangesOnlyAccessToken ==
  [][\A c \in Calls :
       (calls[c].pc = "refreshing" /\ calls'[c].pc = "sent")
         => (/\ ls'.refresh_token = ls.refresh_token
             /\ ls'.access_token = calls'[c].hdr
             /\ auth' = auth
             /\ authStorage' = authStorage
             /\ location' = location)]_vars

\* a request was re-issued after a silent refresh that stored a new access
\* token: the refresh token, the profile and isAuthenticated are in place
C27_Witness ==
  \E c \in Calls :
    /\ calls[c].pc = "sent" /\ calls[c].refreshes = 1 /\ calls[c].sends = 2
    /\ ls.access_token = calls[c].hdr /\ ls.access_token # auth.accessToken
    /\ ls.refresh_token = "r1"
    /\ auth.isAuthenticated /\ auth.user.present

\* a login or refreshUser call is in flight
LoadingCallInFlight ==
  \E c \in Calls : calls[c].op \in {"login", "refreshUser"} /\ calls[c].pc \in {"sent", "refreshing"}

\* C29: isLoading is false in every state in which no login or refreshUser call
\* is in flight.
C29_NotLoadingWhenIdle == ~LoadingCallInFlight => ~auth.isLoading

\* a refreshUser call made while a logout was in flight has failed after the
\* logout completed: nothing is in flight and isLoading is false again
C29_Witness ==
  /\ ~LoadingCallInFlight /\ ~auth.isLoading
  /\ \E c, d \in Calls :
       /\ calls[c].op = "refreshUser" /\ calls[c].pc = "done" /\ calls[c].resp.status = "network"
       /\ calls[d].op = "logout" /\ calls[d].pc = "done"

\* C30: on the list views the current page is at least 1 and not beyond the
\* last page of the current result set: (page - 1) * page_size < total
\* whenever total > 0.
C30_PageWithinRange ==
  /\ pager.page >= 1
  /\ Total(listing, pager) > 0 => (pager.page - 1) * PageSize < Total(listing, pager)

====
